---- MODULE Spec2Model ----
(***************************************************************************)
(* Model of src/sys/windows.rs: parse_netsh, the parser of the output of   *)
(* `netsh wlan show networks mode=Bssid`.  Text is modelled as TLA+        *)
(* strings, read character by character with Len, SubSeq and \o, so that   *)
(* the splitting, trimming, matching and number conversions of the code    *)
(* are computed rather than assumed.                                       *)
(***************************************************************************)
EXTENDS Integers, Sequences, FiniteSets

(***************************************************************************)
(* Bounds of the model.                                                    *)
(***************************************************************************)
\* most lines of a generated input text
MaxLines == 3
\* most entries of a sequence handed to the record-building loop alone
MaxZip == 3

(***************************************************************************)
(* Strings.                                                                *)
(***************************************************************************)
Ch(s, i) == SubSeq(s, i, i)

Digits == {"0", "1", "2", "3", "4", "5", "6", "7", "8", "9"}

\* the class [a-fA-F0-9:] of mac_regex
HexColon ==
    Digits \cup {"a", "b", "c", "d", "e", "f", "A", "B", "C", "D", "E", "F", ":"}

\* char::is_whitespace, for the characters the inputs are made of
WhiteSpace == {" ", "\t", "\n", "\r"}

SetMin(S) == CHOOSE x \in S : \A y \in S : x <= y

\* s has pat at position i
MatchAt(s, i, pat) ==
    /\ i >= 1
    /\ i + Len(pat) - 1 <= Len(s)
    /\ SubSeq(s, i, i + Len(pat) - 1) = pat

\* str::contains with a literal pattern
Contains(s, pat) == \E i \in 1..(Len(s) - Len(pat) + 1) : MatchAt(s, i, pat)

\* The pieces between the non-overlapping leftmost occurrences of a literal,
\* non-empty pattern: the shape shared by str::split and Regex::split.  There
\* is always at least one piece, and a piece may be empty.
RECURSIVE SplitLiteral(_, _)
SplitLiteral(s, pat) ==
    LET hits == {i \in 1..(Len(s) - Len(pat) + 1) : MatchAt(s, i, pat)}
    IN  IF hits = {}
        THEN <<s>>
        ELSE LET i == SetMin(hits)
             IN  <<SubSeq(s, 1, i - 1)>>
                 \o SplitLiteral(SubSeq(s, i + Len(pat), Len(s)), pat)

\* split_regex.split(network_list), split_regex being the literal "\nSSID"
split_regex_split(text) == SplitLiteral(text, "\nSSID")

\* line.split(":")
SplitColon(line) == SplitLiteral(line, ":")

\* Option values: Iterator::next / nth and Regex::find / captures return these
None == [some |-> FALSE, val |-> ""]
Some(v) == [some |-> TRUE, val |-> v]

\* Iterator::nth (0-based) over the pieces of a split
Nth(pieces, n) == IF n + 1 <= Len(pieces) THEN Some(pieces[n + 1]) ELSE None

\* Option::unwrap_or
UnwrapOr(opt, default) == IF opt.some THEN opt.val ELSE default

\* str::trim: the whitespace at both ends removed
RECURSIVE TrimStart(_)
TrimStart(s) ==
    IF Len(s) > 0 /\ Ch(s, 1) \in WhiteSpace
    THEN TrimStart(SubSeq(s, 2, Len(s)))
    ELSE s

RECURSIVE TrimEnd(_)
TrimEnd(s) ==
    IF Len(s) > 0 /\ Ch(s, Len(s)) \in WhiteSpace
    THEN TrimEnd(SubSeq(s, 1, Len(s) - 1))
    ELSE s

Trim(s) == TrimEnd(TrimStart(s))

\* str::replace("%", ""): every "%" removed
RECURSIVE RemovePercent(_)
RemovePercent(s) ==
    IF Len(s) = 0 THEN ""
    ELSE (IF Ch(s, 1) = "%" THEN "" ELSE Ch(s, 1))
         \o RemovePercent(SubSeq(s, 2, Len(s)))

\* str::lines: the text cut after each "\n"; the "\n" and a "\r" before it are
\* not part of the line, and an empty piece after the last "\n" is no line.
StripLineEnd(piece) ==
    IF Len(piece) > 0 /\ Ch(piece, Len(piece)) = "\r"
    THEN SubSeq(piece, 1, Len(piece) - 1)
    ELSE piece

RECURSIVE Lines(_)
Lines(text) ==
    IF Len(text) = 0 THEN <<>>
    ELSE LET hits == {i \in 1..Len(text) : Ch(text, i) = "\n"}
         IN  IF hits = {}
             THEN <<text>>
             ELSE LET i == SetMin(hits)
                  IN  <<StripLineEnd(SubSeq(text, 1, i - 1))>>
                      \o Lines(SubSeq(text, i + 1, Len(text)))

(***************************************************************************)
(* The two patterns that are searched in a line.                           *)
(***************************************************************************)
\* the number of digits of s from position i on
RECURSIVE DigitRun(_, _)
DigitRun(s, i) ==
    IF i <= Len(s) /\ Ch(s, i) \in Digits THEN 1 + DigitRun(s, i + 1) ELSE 0

\* ssid_regex.find(line), ssid_regex being "^ [0-9]* : ": the match is the
\* prefix " <digits> : " of the line, not the line
ssid_regex_find(line) ==
    IF MatchAt(line, 1, " ")
    THEN LET k == DigitRun(line, 2)
         IN  IF MatchAt(line, 2 + k, " : ")
             THEN Some(SubSeq(line, 1, k + 4))
             ELSE None
    ELSE None

\* mac_regex.captures(line).get(0), mac_regex being "[a-fA-F0-9:]{17}": the
\* leftmost 17 characters in a row that are hexadecimal digits or colons
mac_regex_captures(line) ==
    LET hits == {i \in 1..(Len(line) - 16) :
                    \A j \in i..(i + 16) : Ch(line, j) \in HexColon}
    IN  IF hits = {}
        THEN None
        ELSE Some(SubSeq(line, SetMin(hits), SetMin(hits) + 16))

(***************************************************************************)
(* Numbers.                                                                *)
(***************************************************************************)
DigitVal(c) ==
    CASE c = "0" -> 0 [] c = "1" -> 1 [] c = "2" -> 2 [] c = "3" -> 3
      [] c = "4" -> 4 [] c = "5" -> 5 [] c = "6" -> 6 [] c = "7" -> 7
      [] c = "8" -> 8 [] c = "9" -> 9

DigitChar(d) ==
    CASE d = 0 -> "0" [] d = 1 -> "1" [] d = 2 -> "2" [] d = 3 -> "3"
      [] d = 4 -> "4" [] d = 5 -> "5" [] d = 6 -> "6" [] d = 7 -> "7"
      [] d = 8 -> "8" [] d = 9 -> "9"

\* the value of a string of digits, read left to right
RECURSIVE DigitsValue(_, _)
DigitsValue(s, acc) ==
    IF Len(s) = 0 THEN acc
    ELSE DigitsValue(SubSeq(s, 2, Len(s)), 10 * acc + DigitVal(Ch(s, 1)))

\* str::parse::<i32>: an optional sign, then at least one digit and nothing
\* else; anything else is an Err (some = FALSE).  The numbers of the model's
\* inputs have at most three digits, so the i32 range never decides.
ParseI32(s) ==
    LET signed == Len(s) > 0 /\ Ch(s, 1) \in {"+", "-"}
        body   == IF signed THEN SubSeq(s, 2, Len(s)) ELSE s
        value  == IF signed /\ Ch(s, 1) = "-"
                  THEN 0 - DigitsValue(body, 0)
                  ELSE DigitsValue(body, 0)
    IN  IF /\ Len(body) > 0
           /\ \A i \in 1..Len(body) : Ch(body, i) \in Digits
        THEN [some |-> TRUE, val |-> value]
        ELSE [some |-> FALSE, val |-> 0]

\* i32 division: the quotient is truncated towards zero
TruncDiv(a, b) == IF a >= 0 THEN a \div b ELSE 0 - ((0 - a) \div b)

\* i32::to_string: the decimal digits, after a "-" when negative
RECURSIVE NatToString(_)
NatToString(n) ==
    IF n < 10 THEN DigitChar(n)
    ELSE NatToString(n \div 10) \o DigitChar(n % 10)

I32ToString(n) == IF n < 0 THEN "-" \o NatToString(0 - n) ELSE NatToString(n)

\* lines 52-57: the percentage text of a Signal line as a level.  The text
\* that does not parse counts as -100 before the conversion, not after it.
SignalToRssi(percent) ==
    LET parsed == ParseI32(RemovePercent(Trim(percent)))
        rssi   == IF parsed.some THEN parsed.val ELSE -100
    IN  TruncDiv(rssi, 2) - 100

(***************************************************************************)
(* The input texts.                                                        *)
(***************************************************************************)
\* the lines a generated text is made of, as netsh prints them
InputLines ==
    { "SSID 1 : Vo",
      " 2 : Ed",
      " Authentication : Open\r",
      " BSSID 1 : ab:cd:ef:01:23:45",
      " Signal : 16%",
      " Signal : x%",
      " Channel : 6",
      "none",
      "" }

\* every text of n lines, each line ended by "\n"
RECURSIVE TextsOf(_)
TextsOf(n) ==
    IF n = 0 THEN {""}
    ELSE {t \o l \o "\n" : t \in TextsOf(n - 1), l \in InputLines}

GeneratedTexts == UNION {TextsOf(n) : n \in 0..MaxLines}

\* the input of the end-to-end scenario, as one block
EndToEndBlock ==
    "SSID 1 : Vodafone Hotspot\n"
    \o "     Authentication           : Open\n"
    \o "     BSSID1                   : ab:cd:ef:01:23:45\n"
    \o "          Signal              : 16%\n"
    \o "          Channel             : 6\n"
    \o "     BSSID2                   : ab:cd:ef:01:23:45\n"
    \o "          Signal              : 54%\n"
    \o "          Channel             : 6\n"

\* the same after the heading netsh prints before the first network
EndToEndInput == "\nInterface name : Wi-Fi\n\n" \o EndToEndBlock

\* A network as the fixture of should_parse_netsh lays it out: its name, its
\* authentication and its access points, each a signal percentage and a channel
Vodafone ==
    [ssid |-> "Vodafone Hotspot", auth |-> "Open",
     aps |-> <<[signal |-> 16, channel |-> "6"], [signal |-> 54, channel |-> "6"]>>]

EdaBox ==
    [ssid |-> "EdaBox", auth |-> "WPA2-Personal",
     aps |-> <<[signal |-> 36, channel |-> "11"]>>]

FritzBox ==
    [ssid |-> "FRITZ!Box 2345 Cable", auth |-> "WPA2-Personal",
     aps |-> <<[signal |-> 100, channel |-> "1"]>>]

FixtureMac == "ab:cd:ef:01:23:45"

FixtureNetworks ==
    { <<Vodafone>>, <<EdaBox>>, <<Vodafone, EdaBox>>, <<EdaBox, Vodafone>>,
      <<Vodafone, EdaBox, FritzBox>> }

RECURSIVE RenderAps(_, _)
RenderAps(aps, n) ==
    IF n > Len(aps) THEN ""
    ELSE "    BSSID " \o I32ToString(n) \o "                 : " \o FixtureMac \o "\n"
         \o "         Signal             : " \o I32ToString(aps[n].signal) \o "%  \n"
         \o "         Radio type         : 802.11n\n"
         \o "         Channel            : " \o aps[n].channel \o " \n"
         \o RenderAps(aps, n + 1)

RECURSIVE RenderNetworks(_, _)
RenderNetworks(nets, n) ==
    IF n > Len(nets) THEN ""
    ELSE "SSID " \o I32ToString(n) \o " : " \o nets[n].ssid \o "\n"
         \o "    Network type            : Infrastructure\n"
         \o "    Authentication          : " \o nets[n].auth \o "\n"
         \o "    Encryption              : CCMP \n"
         \o RenderAps(nets[n].aps, 1)
         \o "\n"
         \o RenderNetworks(nets, n + 1)

FixtureText(nets) ==
    "\nInterface name : Wi-Fi \nThere are "
    \o I32ToString(Len(nets)) \o " networks currently visible. \n\n"
    \o RenderNetworks(nets, 1)

\* what scan hands to parse_netsh
Inputs ==
    GeneratedTexts
    \cup {EndToEndBlock, EndToEndInput}
    \cup {FixtureText(nets) : nets \in FixtureNetworks}

(***************************************************************************)
(* parse_netsh.                                                            *)
(***************************************************************************)
VARIABLES
    network_list,   \* the text parse_netsh is called with
    pc,             \* "call", "block" (outer loop), "line" (inner loop), "done"
    blocks,         \* the blocks the outer loop has still to visit
    block,          \* the block being scanned
    block_lines,    \* the lines of it the inner loop has still to visit
    line,           \* the line scanned last in this block, if any
    wifi_macs,
    wifi_ssid,
    wifi_channels,
    wifi_rssi,
    wifi_security,
    wifis,          \* the records pushed so far
    result          \* "none" until parse_netsh returns, then "Ok" or the error

vars ==
    <<network_list, pc, blocks, block, block_lines, line, wifi_macs, wifi_ssid,
      wifi_channels, wifi_rssi, wifi_security, wifis, result>>

\* the per-block values as one record
BlockState ==
    [wifi_macs |-> wifi_macs, wifi_ssid |-> wifi_ssid,
     wifi_channels |-> wifi_channels, wifi_rssi |-> wifi_rssi,
     wifi_security |-> wifi_security]

\* lines 27-31: the values a block starts with
NewBlock ==
    [wifi_macs |-> <<>>, wifi_ssid |-> "", wifi_channels |-> <<>>,
     wifi_rssi |-> <<>>, wifi_security |-> ""]

\* variant: the address pattern is mistyped and does not compile
RegexNewUnclosed(pattern) == pattern \in {"\nSSID", "^ [0-9]* : "}

\* Regex::new(pattern) succeeds: each of the three fixed patterns compiles
RegexNew(pattern) == pattern \in {"\nSSID", "^ [0-9]* : ", "[a-fA-F0-9:]{17}"}

\* variant: the first piece counts only when it is not empty
AuthLineNonEmpty(l) ==
    IF SplitColon(l)[1] = "" THEN None ELSE Some(SplitColon(l)[1])

\* variant: only a line that names the authentication is a security line,
\* and its value is the piece after the colon
AuthLineKeyword(l) ==
    IF Contains(l, "Authentication") THEN Nth(SplitColon(l), 1) ELSE None

\* line 42: line.split(":").next(), the piece before the first colon.  A
\* split has a first piece for every line, the empty line included.
AuthLine(l) == Nth(SplitColon(l), 0)

\* variant: the label is kept once it has been set
SetSecurityOnce(b, label) ==
    IF b.wifi_security = "" THEN [b EXCEPT !.wifi_security = label] ELSE b

\* line 43: wifi_security = ...
SetSecurity(b, label) == [b EXCEPT !.wifi_security = label]

\* lines 34-63: the body of the inner loop, one line l scanned into b.  The
\* branches are tried in the order of the else-if chain.
ScanLine(b, l) ==
    LET ssid_match == ssid_regex_find(l)
        auth_line  == AuthLine(l)
    IN  IF ssid_match.some
        THEN [b EXCEPT !.wifi_ssid =
                 Trim(UnwrapOr(Nth(SplitColon(ssid_match.val), 1), ""))]
        ELSE IF auth_line.some
        THEN SetSecurity(b, Trim(auth_line.val))
        ELSE IF Contains(l, "BSSID")
        THEN LET captures == mac_regex_captures(l)
             IN  IF captures.some
                 THEN [b EXCEPT !.wifi_macs = Append(@, captures.val)]
                 ELSE b
        ELSE IF Contains(l, "Signal")
        THEN LET percent == Nth(SplitColon(l), 1)
             IN  IF percent.some
                 THEN [b EXCEPT !.wifi_rssi = Append(@, SignalToRssi(percent.val))]
                 ELSE b
        ELSE IF Contains(l, "Channel")
        THEN LET channel == Nth(SplitColon(l), 1)
             IN  IF channel.some
                 THEN [b EXCEPT !.wifi_channels = Append(@, Trim(channel.val))]
                 ELSE b
        ELSE b

Min3(a, b, c) ==
    IF a <= b /\ a <= c THEN a ELSE IF b <= c THEN b ELSE c

Max3(a, b, c) ==
    IF a >= b /\ a >= c THEN a ELSE IF b >= c THEN b ELSE c

\* variant: as many triples as the longest has, the gaps filled
IzipLongest(macs, channels, rssi) ==
    [i \in 1..Max3(Len(macs), Len(channels), Len(rssi)) |->
        <<IF i <= Len(macs) THEN macs[i] ELSE "",
          IF i <= Len(channels) THEN channels[i] ELSE "",
          IF i <= Len(rssi) THEN rssi[i] ELSE 0>>]

\* izip!(wifi_macs, wifi_channels, wifi_rssi): the triples by position, as
\* many as the shortest of the three has
Izip(macs, channels, rssi) ==
    [i \in 1..Min3(Len(macs), Len(channels), Len(rssi)) |->
        <<macs[i], channels[i], rssi[i]>>]

\* lines 67-73: the record of one triple
WifiOf(triple, ssid, security) ==
    [mac          |-> triple[1],
     ssid         |-> ssid,
     channel      |-> triple[2],
     signal_level |-> I32ToString(triple[3]),
     security     |-> security]

\* lines 66-74: the records of one block
BlockWifis(b) ==
    LET zipped == Izip(b.wifi_macs, b.wifi_channels, b.wifi_rssi)
    IN  [i \in 1..Len(zipped) |-> WifiOf(zipped[i], b.wifi_ssid, b.wifi_security)]

Init ==
    /\ network_list \in Inputs
    /\ pc = "call"
    /\ blocks = <<>>
    /\ block = ""
    /\ block_lines = <<>>
    /\ line = None
    /\ wifi_macs = <<>>
    /\ wifi_ssid = ""
    /\ wifi_channels = <<>>
    /\ wifi_rssi = <<>>
    /\ wifi_security = ""
    /\ wifis = <<>>
    /\ result = "none"

\* lines 19-26: the patterns are built and the text is split into blocks
Call ==
    /\ pc = "call"
    /\ IF RegexNew("\nSSID") /\ RegexNew("^ [0-9]* : ") /\ RegexNew("[a-fA-F0-9:]{17}")
       THEN /\ blocks' = split_regex_split(network_list)
            /\ pc' = "block"
            /\ result' = result
       ELSE /\ blocks' = blocks
            /\ pc' = "done"
            /\ result' = "SyntaxRegexError"
    /\ UNCHANGED <<network_list, block, block_lines, line, wifi_macs, wifi_ssid,
                   wifi_channels, wifi_rssi, wifi_security, wifis>>

\* lines 26-33: the outer loop takes the next block
NextBlock ==
    /\ pc = "block"
    /\ blocks # <<>>
    /\ block' = Head(blocks)
    /\ blocks' = Tail(blocks)
    /\ block_lines' = Lines(Head(blocks))
    /\ line' = None
    /\ wifi_macs' = NewBlock.wifi_macs
    /\ wifi_ssid' = NewBlock.wifi_ssid
    /\ wifi_channels' = NewBlock.wifi_channels
    /\ wifi_rssi' = NewBlock.wifi_rssi
    /\ wifi_security' = NewBlock.wifi_security
    /\ pc' = "line"
    /\ UNCHANGED <<network_list, wifis, result>>

\* lines 33-64: the inner loop scans the next line
ProcessLine ==
    /\ pc = "line"
    /\ block_lines # <<>>
    /\ LET b == ScanLine(BlockState, Head(block_lines))
       IN  /\ wifi_macs' = b.wifi_macs
           /\ wifi_ssid' = b.wifi_ssid
           /\ wifi_channels' = b.wifi_channels
           /\ wifi_rssi' = b.wifi_rssi
           /\ wifi_security' = b.wifi_security
    /\ line' = Some(Head(block_lines))
    /\ block_lines' = Tail(block_lines)
    /\ UNCHANGED <<network_list, pc, blocks, block, wifis, result>>

\* lines 66-74: the lines are over and the block's records are pushed
EmitBlock ==
    /\ pc = "line"
    /\ block_lines = <<>>
    /\ wifis' = wifis \o BlockWifis(BlockState)
    /\ pc' = "block"
    /\ UNCHANGED <<network_list, blocks, block, block_lines, line, wifi_macs,
                   wifi_ssid, wifi_channels, wifi_rssi, wifi_security, result>>

\* line 77: the blocks are over
Return ==
    /\ pc = "block"
    /\ blocks = <<>>
    /\ result' = "Ok"
    /\ pc' = "done"
    /\ UNCHANGED <<network_list, blocks, block, block_lines, line, wifi_macs,
                   wifi_ssid, wifi_channels, wifi_rssi, wifi_security, wifis>>

Next == Call \/ NextBlock \/ ProcessLine \/ EmitBlock \/ Return

Spec == Init /\ [][Next]_vars

(***************************************************************************)
(* The record-building loop on its own: lines 66-74 as a function of the   *)
(* five values of a block, which are drawn from bounded sets.              *)
(***************************************************************************)
ZipMacs == {"ab:cd:ef:01:23:45", "AB:CD:EF:01:23:46"}
ZipChannels == {"6", "11"}
ZipRssi == {-92, -50}

SeqsUpTo(S, n) == UNION {[1..k -> S] : k \in 0..n}

ZipInit ==
    /\ network_list = ""
    /\ pc = "line"
    /\ blocks = <<>>
    /\ block = ""
    /\ block_lines = <<>>
    /\ line = None
    /\ wifi_macs \in SeqsUpTo(ZipMacs, MaxZip)
    /\ wifi_ssid \in {"", "Vo"}
    /\ wifi_channels \in SeqsUpTo(ZipChannels, MaxZip)
    /\ wifi_rssi \in SeqsUpTo(ZipRssi, MaxZip)
    /\ wifi_security = "Open"
    /\ wifis = <<>>
    /\ result = "none"

ZipNext == EmitBlock \/ Return

ZipSpec == ZipInit /\ [][ZipNext]_vars

(***************************************************************************)
(* Properties.  Their vocabulary is defined here from the text of a line,  *)
(* apart from the operators of the parser.                                 *)
(***************************************************************************)
ColonsOf(l) == {i \in 1..Len(l) : Ch(l, i) = ":"}

\* the text of l before its first colon: all of l when it has none
BeforeFirstColon(l) ==
    IF ColonsOf(l) = {} THEN l ELSE SubSeq(l, 1, SetMin(ColonsOf(l)) - 1)

\* the text of l after its first colon
AfterFirstColon(l) ==
    IF ColonsOf(l) = {} THEN "" ELSE SubSeq(l, SetMin(ColonsOf(l)) + 1, Len(l))

\* s without the whitespace around it
Stripped(s) ==
    LET inked == {i \in 1..Len(s) : Ch(s, i) \notin {" ", "\t", "\n", "\r"}}
    IN  IF inked = {} THEN ""
        ELSE SubSeq(s, SetMin(inked), CHOOSE i \in inked : \A j \in inked : j <= i)

IsSsidLine(l) == ssid_regex_find(l).some

HasKeyword(l) ==
    Contains(l, "BSSID") \/ Contains(l, "Signal") \/ Contains(l, "Channel")

\* a line has just been scanned
Scanned == pc = "line" /\ line.some

\* the scan of a block is over
BlockScanned == pc = "line" /\ block_lines = <<>>

RECURSIVE ExpectedOfAps(_, _, _)
ExpectedOfAps(net, aps, n) ==
    IF n > Len(aps) THEN <<>>
    ELSE <<[mac          |-> FixtureMac,
            ssid         |-> net.ssid,
            channel      |-> aps[n].channel,
            signal_level |-> I32ToString((aps[n].signal \div 2) - 100),
            security     |-> net.auth]>>
         \o ExpectedOfAps(net, aps, n + 1)

RECURSIVE ExpectedWifis(_, _)
ExpectedWifis(nets, n) ==
    IF n > Len(nets) THEN <<>>
    ELSE ExpectedOfAps(nets[n], nets[n].aps, 1) \o ExpectedWifis(nets, n + 1)

\* C1: for a text laid out like the fixture, parse_netsh returns one record
\* per BSSID entry, in input order, with the network's name and
\* authentication value and the entry's address, channel and percent/2 - 100.
C1_FixtureRecords ==
    \A nets \in FixtureNetworks :
        (pc = "done" /\ network_list = FixtureText(nets))
            => (result = "Ok" /\ wifis = ExpectedWifis(nets, 1))

EndToEndWifi(level) ==
    [mac |-> "ab:cd:ef:01:23:45", ssid |-> "Vodafone Hotspot", channel |-> "6",
     signal_level |-> level, security |-> "Authentication"]

\* C2: the end-to-end input yields exactly two records, both named
\* Vodafone Hotspot with security Authentication, channel 6 and the address,
\* the first with level -92 and the second with level -73.
C2_EndToEndRecords ==
    (pc = "done" /\ network_list \in {EndToEndBlock, EndToEndInput})
        => wifis = <<EndToEndWifi("-92"), EndToEndWifi("-73")>>

\* C3: whatever the input text, parse_netsh returns Ok: no text makes it
\* return an error.
C3_NoInputError ==
    /\ result \in {"none", "Ok"}
    /\ result = "Ok" <=> pc = "done"

\* a text of malformed lines has been parsed
C3_Witness ==
    /\ network_list = " Signal : x%\n BSSID 1 : ab:cd:ef:01:23:45\nnone\n"
    /\ pc = "done"
    /\ result = "Ok"

\* C4: the records built from a block are as many as the shortest of its
\* MAC, channel and signal sequences has entries, and the i-th record is
\* made of the i-th entry of each; with lengths 3/3/2 there are exactly 2.
C4_ZipShortest ==
    pc \in {"block", "done"} =>
        /\ Len(wifis) <= Len(wifi_macs)
        /\ Len(wifis) <= Len(wifi_channels)
        /\ Len(wifis) <= Len(wifi_rssi)
        /\ Len(wifis) \in {Len(wifi_macs), Len(wifi_channels), Len(wifi_rssi)}
        /\ \A i \in 1..Len(wifis) :
              wifis[i] = [mac          |-> wifi_macs[i],
                          ssid         |-> wifi_ssid,
                          channel      |-> wifi_channels[i],
                          signal_level |-> I32ToString(wifi_rssi[i]),
                          security     |-> wifi_security]
        /\ (Len(wifi_macs) = 3 /\ Len(wifi_channels) = 3 /\ Len(wifi_rssi) = 2)
              => Len(wifis) = 2

\* sequences of 3, 3 and 2 entries have been made into 2 records
C4_Witness ==
    /\ pc = "block"
    /\ Len(wifi_macs) = 3
    /\ Len(wifi_channels) = 3
    /\ Len(wifi_rssi) = 2
    /\ Len(wifis) = 2
    /\ wifis[2].mac = wifi_macs[2]
    /\ wifi_macs[3] # wifi_macs[2]

\* C5: after a line that contains Signal and whose text after the first
\* colon is a percentage p in 0..100, with or without its %, the last entry
\* of the block's signal sequence is p / 2 - 100.
C5_SignalAppended ==
    \A p \in 0..100 :
        ( /\ Scanned
          /\ Contains(line.val, "Signal")
          /\ Stripped(AfterFirstColon(line.val))
                \in {I32ToString(p), I32ToString(p) \o "%"} )
            => /\ wifi_rssi # <<>>
               /\ wifi_rssi[Len(wifi_rssi)] = (p \div 2) - 100

\* C6: after a Signal line whose percentage text is no integer, the last
\* entry of the block's signal sequence is -100.
C6_UnparseableSignal ==
    ( /\ Scanned
      /\ Contains(line.val, "Signal")
      /\ ColonsOf(line.val) # {}
      /\ ~ParseI32(RemovePercent(Stripped(AfterFirstColon(line.val)))).some )
        => /\ wifi_rssi # <<>>
           /\ wifi_rssi[Len(wifi_rssi)] = -100

NotSsidLine(l) == ~IsSsidLine(l)

PlainLine(l) == ~IsSsidLine(l) /\ ~HasKeyword(l)

C8_SsidAfterColon ==
    (Scanned /\ IsSsidLine(line.val))
        => wifi_ssid = Stripped(AfterFirstColon(line.val))

====
